---- MODULE Spec2Model ----
\* runonchange: the event-to-execution pipeline of the supervisor.
\* Goroutines: main (setup), the watcher loop (watchFSEvents), the
\* dispatcher (handleFSEvents), the asynchronous startup run (maybeRun) and
\* one child-exit goroutine per spawned COMMAND (execAsync).
EXTENDS Integers, Sequences, FiniteSets, TLC

\* ---------------------------------------------------------------- bounds
MaxTime == 2       \* clock ticks after Epoch
MaxWait == 1       \* WaitFor is drawn from 0..MaxWait
MaxEvents == 2     \* filesystem events the filter accepts
MaxSignals == 2    \* interrupt signals sent to the supervisor
NTargets == 2      \* watch targets to register
MaxChain == 2      \* matchers in run.Patterns
MaxDepth == 2      \* components of an event's path

\* ------------------------------------------------------------- constants
ZeroTime == 0      \* time.Time{}
NilChan == 0       \* a nil channel / nil pointer
KillsCap == 1      \* make(chan os.Signal, 1)
DeathCap == 1      \* make(chan error, 1)
exWatcher == 2     \* exitReason exWatcher
exFsevent == 3     \* exitReason exFsevent
NotExited == 0 - 1 \* the supervisor process is still running

Epoch == 2 * MaxWait + 1   \* start-up time: the zero time is older than any window
MaxRuns == MaxEvents + 1   \* the startup run plus one run per event
Children == 1..MaxRuns
Chans == 1..MaxRuns        \* Birth/Death channel pairs, one per run
Procs == {"D", "S"}        \* goroutines that execute maybeRun

VARIABLES
  clobber,     \* Features[flgClobberCommands]
  WaitFor,     \* run.WaitFor
  quiet,       \* Features[flgQuiet]
  now,         \* the wall clock
  LastRun,     \* run.LastRun
  LastFin,     \* run.LastFin
  RunMux,      \* "free" or the goroutine holding run.RunMux
  Cmd,         \* run.Cmd: the child most recently built (0 = nil)
  Birth,       \* run.Birth: channel id (0 = nil)
  birthBuf,    \* per Birth channel: sequence of buffered children
  birthClosed, \* set of closed Birth channels
  Death,       \* run.Death: channel id (0 = nil)
  deathBuf,    \* per Death channel: the children whose exit value e it holds
  Kills,       \* run.Kills: number of buffered signals
  Living,      \* run.Living: child id (0 = nil)
  cstate,      \* per child: progress of its child-exit goroutine
  sigkilled,   \* per child: SIGKILL was sent to its process group
  pc,          \* per maybeRun caller: position
  dDeath,      \* the Death channel the dispatcher's select waits on
  ret,         \* (ran, err) returned by the dispatcher's maybeRun call
  pcMain,      \* position of main/setup
  count,       \* registerDirectoriesToWatch's count
  subscribed,  \* successful fsWatcher.Add calls
  pcW,         \* position of watchFSEvents
  nEvents,     \* events the filter has accepted so far
  outEv,       \* watchFSEvents' e: the accepted event it sends on out (0 = none)
  ev,          \* the dispatcher's ev: the event it received last (0 = none)
  nSignals,    \* signals sent so far
  taken,       \* signals taken from run.Kills so far
  gcStatus,    \* gracefulCleanup's exitStatus
  gcErrs,      \* the errors gracefulCleanup's two steps returned
  watcherClosed,
  exitCode,    \* os.Exit status, NotExited while running
  lastActual,  \* time a child process last started or ended (0 = never)
  viaCleanup,  \* children whose Death value cleanupExistant(true) received
  calledAt,    \* per maybeRun caller: when its call in progress was made (0 = none)
  startCall,   \* when the call that started the latest child was made (0 = none)
  Patterns,    \* run.Patterns: the chain of matchers
  evName,      \* e.Name of the event given to isRejected (<<>> = none yet)
  verdict,     \* what isRejected returned for it ("none" = not called yet)
  items,       \* the command line as written: flags with their values, positionals
  argv,        \* os.Args[1:]
  parseErr     \* the error parseCli returned ("unparsed" = not called yet)

\* what no step of the supervisor's goroutines changes: the configuration,
\* and the event and verdict of the filter, which FilterSpec exercises
filterVars == <<Patterns, evName, verdict>>
cliVars == <<items, argv, parseErr>>
cfgVars == <<clobber, WaitFor, quiet, filterVars, cliVars>>
birthVars == <<Birth, birthBuf, birthClosed>>
mainVars == <<pcMain, count, subscribed>>
watchVars == <<pcW, nEvents, outEv>>
gcVars == <<gcStatus, gcErrs, watcherClosed>>
sigVars == <<nSignals, taken>>
dVars == <<dDeath, ret, ev>>
callVars == <<calledAt, startCall>>

runVars == <<now, LastRun, LastFin, RunMux, Cmd, birthVars, Death,
             deathBuf, Kills, Living, cstate, sigkilled, pc, dVars,
             mainVars, watchVars, sigVars, gcVars, exitCode, lastActual,
             viaCleanup, callVars>>
vars == <<cfgVars, runVars>>

\* ------------------------------------------------------------- helpers
Alive == exitCode = NotExited

\* the child's process exists and has not ended
Running(c) == cstate[c] = "running"

\* exec.Cmd.Process is non-nil: the process was started
HasProcess(c) == cstate[c] \in {"running", "exited", "finset", "sent"}

\* what a maybeRun caller does after maybeRun returns
Ret(g) == IF g = "D" THEN "loop" ELSE "done"

\* maybeRun returns r: handleFSEvents binds the pair, the go statement of
\* setup discards it
Returns(g, r) == ret' = IF g = "D" THEN r ELSE ret

\* g calls maybeRun
Called(g) == calledAt' = [calledAt EXCEPT ![g] = now]

\* the maybeRun call of g returns
Returned(g) == calledAt' = [calledAt EXCEPT ![g] = 0]

\* the maybeRun call of g goes on to execAsync
Started(g) == startCall' = calledAt[g]

\* time.Since(t)
Since(t) == now - t

\* isRecent with strict comparisons: an age equal to the window is not recent
isRecentStrict ==
  LET since == IF clobber THEN 2 * WaitFor ELSE WaitFor
  IN  (Since(LastRun) < since) \/ (Since(LastFin) < since)

\* isRecent that does not double the window when CLOBBER is set
isRecentNoDoubling ==
  (Since(LastRun) <= WaitFor) \/ (Since(LastFin) <= WaitFor)

isRecent ==
  LET since == IF clobber THEN 2 * WaitFor ELSE WaitFor
  IN  (Since(LastRun) <= since) \/ (Since(LastFin) <= since)

\* syscall.Kill(-pid, SIGKILL): fails (ESRCH) once the process is reaped
KillOk(c) == Running(c)

\* explainAttempt that never records a failure
explainAttemptForgets(status, failed) == status

explainAttempt(status, failed) ==
  IF failed /\ status = 0 THEN 1 ELSE status

\* the run state of a fresh directive
InitRun ==
  /\ now = Epoch
  /\ LastRun = ZeroTime
  /\ LastFin = ZeroTime
  /\ RunMux = "free"
  /\ Cmd = 0
  /\ Birth = NilChan
  /\ birthBuf = [ch \in Chans |-> <<>>]
  /\ birthClosed = {}
  /\ Death = NilChan
  /\ deathBuf = [ch \in Chans |-> <<>>]
  /\ Kills = 0
  /\ Living = 0
  /\ cstate = [c \in Children |-> "none"]
  /\ sigkilled = [c \in Children |-> FALSE]
  /\ pc = [g \in Procs |-> IF g = "D" THEN "loop" ELSE "idle"]
  /\ dDeath = NilChan
  /\ ret = <<>>
  /\ pcMain = "register"
  /\ count = 0
  /\ subscribed = 0
  /\ pcW = "recv"
  /\ nEvents = 0
  /\ outEv = 0
  /\ ev = 0
  /\ nSignals = 0
  /\ taken = 0
  /\ gcStatus = 0
  /\ gcErrs = <<>>
  /\ watcherClosed = FALSE
  /\ exitCode = NotExited
  /\ lastActual = 0
  /\ viaCleanup = {}
  /\ calledAt = [g \in Procs |-> 0]
  /\ startCall = 0

Init ==
  /\ clobber \in BOOLEAN
  /\ WaitFor \in 0..MaxWait
  /\ quiet \in BOOLEAN
  /\ Patterns = <<>>
  /\ evName = <<>>
  /\ verdict = "none"
  /\ items = <<>>
  /\ argv = <<>>
  /\ parseErr = "unparsed"
  /\ InitRun

\* ---------------------------------------------------------------- clock
Tick ==
  /\ Alive
  /\ now < Epoch + MaxTime
  /\ now' = now + 1
  /\ UNCHANGED <<cfgVars, LastRun, LastFin, RunMux, Cmd, birthVars, Death,
                 deathBuf, Kills, Living, cstate, sigkilled, pc,
                 dVars, mainVars, watchVars, sigVars, gcVars, exitCode,
                 lastActual, viaCleanup, callVars>>

\* ------------------------------------------------------------ maybeRun
\* maybeRun that stamps LastRun before it looks at the recency window
MCheckStampsFirst(g) ==
  /\ Alive
  /\ pc[g] = "lock"
  /\ RunMux = "free"
  /\ LastRun' = now
  /\ IF isRecent
       THEN /\ pc' = [pc EXCEPT ![g] = Ret(g)]
            /\ Returns(g, <<FALSE, "nil">>)
            /\ Returned(g)
            /\ UNCHANGED RunMux
       ELSE /\ pc' = [pc EXCEPT ![g] = "assign"]
            /\ RunMux' = g
            /\ UNCHANGED <<ret, calledAt>>
  /\ UNCHANGED <<cfgVars, now, LastFin, Cmd, birthVars, Death,
                 deathBuf, Kills, Living, cstate, sigkilled, dDeath, ev,
                 mainVars, watchVars, sigVars, gcVars, exitCode,
                 lastActual, viaCleanup, startCall>>

\* run.RunMux.Lock(); if run.isRecent() { return false, nil } with the
\* deferred Unlock
MCheck(g) ==
  /\ Alive
  /\ pc[g] = "lock"
  /\ RunMux = "free"
  /\ IF isRecent
       THEN /\ pc' = [pc EXCEPT ![g] = Ret(g)]
            /\ Returns(g, <<FALSE, "nil">>)
            /\ Returned(g)
            /\ UNCHANGED RunMux
       ELSE /\ pc' = [pc EXCEPT ![g] = "assign"]
            /\ RunMux' = g
            /\ UNCHANGED <<ret, calledAt>>
  /\ UNCHANGED <<cfgVars, now, LastRun, LastFin, Cmd, birthVars, Death,
                 deathBuf, Kills, Living, cstate, sigkilled, dDeath, ev,
                 mainVars, watchVars, sigVars, gcVars, exitCode,
                 lastActual, viaCleanup, startCall>>

\* execAsync up to its go statement: build run.Cmd and start the goroutine
\* that calls run.Cmd.Run()
execAsync ==
  /\ Cmd' = Cmd + 1
  /\ cstate' = [cstate EXCEPT ![Cmd + 1] = "starting"]

\* fresh Birth and Death, LastRun = time.Now(), LastFin = time.Time{};
\* then runSync calls execAsync, or runAsync begins
MAssign(g) ==
  /\ Alive
  /\ pc[g] = "assign"
  /\ Birth' = Death + 1
  /\ Death' = Death + 1
  /\ LastRun' = now
  /\ LastFin' = ZeroTime
  /\ IF clobber
       THEN /\ pc' = [pc EXCEPT ![g] = "cleanup"]
            /\ UNCHANGED <<Cmd, cstate, startCall>>
       ELSE /\ pc' = [pc EXCEPT ![g] = "born"]
            /\ execAsync
            /\ Started(g)
  /\ UNCHANGED <<cfgVars, now, RunMux, birthBuf, birthClosed, deathBuf,
                 Kills, Living, sigkilled, dVars, mainVars,
                 watchVars, sigVars, gcVars, exitCode, lastActual, viaCleanup, calledAt>>

\* runAsync: cleanupExistant(true) up to the kill. Nothing living: go
\* execAsync. A failed kill makes runAsync return false and maybeRun
\* return (false, nil)
MCleanup(g) ==
  /\ Alive
  /\ pc[g] = "cleanup"
  /\ IF Living = 0
       THEN /\ pc' = [pc EXCEPT ![g] = "born"]
            /\ execAsync
            /\ Started(g)
            /\ UNCHANGED <<sigkilled, RunMux, ret, calledAt>>
       ELSE IF KillOk(Living)
         THEN /\ sigkilled' = [sigkilled EXCEPT ![Living] = TRUE]
              /\ pc' = [pc EXCEPT ![g] = "waitdeath"]
              /\ UNCHANGED <<RunMux, Cmd, cstate, ret, callVars>>
         ELSE /\ RunMux' = "free"
              /\ pc' = [pc EXCEPT ![g] = Ret(g)]
              /\ Returns(g, <<FALSE, "nil">>)
              /\ Returned(g)
              /\ UNCHANGED <<sigkilled, Cmd, cstate, startCall>>
  /\ UNCHANGED <<cfgVars, now, LastRun, LastFin, birthVars, Death, deathBuf,
                 Kills, Living, dDeath, ev, mainVars, watchVars, sigVars,
                 gcVars, exitCode, lastActual, viaCleanup>>

\* cleanupExistant that does not wait on run.Death after the kill
MWaitDeathSkipped(g) ==
  /\ Alive
  /\ pc[g] = "waitdeath"
  /\ pc' = [pc EXCEPT ![g] = "born"]
  /\ execAsync
  /\ Started(g)
  /\ UNCHANGED <<cfgVars, now, LastRun, LastFin, RunMux, birthVars, Death,
                 deathBuf, Kills, Living, sigkilled, dVars, mainVars,
                 watchVars, sigVars, gcVars, exitCode, lastActual,
                 viaCleanup, calledAt>>

\* cleanupExistant(true): <-run.Death; then runAsync: go execAsync
MWaitDeath(g) ==
  /\ Alive
  /\ pc[g] = "waitdeath"
  /\ deathBuf[Death] # <<>>
  /\ deathBuf' = [deathBuf EXCEPT ![Death] = Tail(@)]
  /\ viaCleanup' = viaCleanup \cup {Head(deathBuf[Death])}
  /\ pc' = [pc EXCEPT ![g] = "born"]
  /\ execAsync
  /\ Started(g)
  /\ UNCHANGED <<cfgVars, now, LastRun, LastFin, RunMux, birthVars, Death,
                 Kills, Living, sigkilled, dVars, mainVars,
                 watchVars, sigVars, gcVars, exitCode, lastActual, calledAt>>

\* the cases of runSync's select that are ready once Birth holds the child
SyncCases ==
  {"birth"} \cup (IF deathBuf[Death] # <<>> THEN {"death"} ELSE {})
            \cup (IF Kills > 0 THEN {"kills"} ELSE {})

\* execAsync's poll sees run.Cmd.Process and sends it on Birth; then the
\* select of runSync (Birth, Death or Kills) or runAsync (Birth only),
\* the deferred close(run.Birth) and the deferred Unlock
MBorn(g) ==
  /\ Alive
  /\ pc[g] = "born"
  /\ HasProcess(Cmd)
  /\ \E case \in (IF clobber THEN {"birth"} ELSE SyncCases) :
       /\ Living' = IF case = "birth" THEN Cmd ELSE Living
       /\ birthBuf' = [birthBuf EXCEPT ![Birth] =
                         IF case = "birth" THEN <<>> ELSE <<Cmd>>]
       /\ deathBuf' = IF case = "death"
                        THEN [deathBuf EXCEPT ![Death] = Tail(@)]
                        ELSE deathBuf
       /\ Kills' = IF case = "kills" THEN Kills - 1 ELSE Kills
       /\ taken' = IF case = "kills" THEN taken + 1 ELSE taken
       /\ Returns(g, <<TRUE, CASE case = "birth" -> "nil"
                               [] case = "death" -> "e"
                               [] case = "kills" -> "interrupted">>)
  /\ birthClosed' = birthClosed \cup {Birth}
  /\ RunMux' = "free"
  /\ pc' = [pc EXCEPT ![g] = Ret(g)]
  /\ Returned(g)
  /\ UNCHANGED <<cfgVars, now, LastRun, LastFin, Cmd, Birth, Death, cstate,
                 sigkilled, dDeath, ev, mainVars, watchVars, nSignals,
                 gcVars, exitCode, lastActual, viaCleanup, startCall>>

\* ------------------------------------------- execAsync's exit goroutine
\* run.Cmd.Run() starts the process, or fails to (the shell cannot be run)
\* and returns at once
CStart(c) ==
  /\ Alive
  /\ cstate[c] = "starting"
  /\ \E ok \in BOOLEAN :
       IF ok
         THEN /\ cstate' = [cstate EXCEPT ![c] = "running"]
              /\ lastActual' = now
         ELSE /\ cstate' = [cstate EXCEPT ![c] = "failed"]
              /\ UNCHANGED lastActual
  /\ UNCHANGED <<cfgVars, now, LastRun, LastFin, RunMux, Cmd, birthVars,
                 Death, deathBuf, Kills, Living, sigkilled, pc, dVars,
                 mainVars, watchVars, sigVars, gcVars, exitCode, viaCleanup, callVars>>

\* the process ends (on its own with any status, or by SIGKILL) and
\* run.Cmd.Run() returns e; every receiver of Death discards e, so the
\* model keeps only whose value it is
CExit(c) ==
  /\ Alive
  /\ cstate[c] = "running"
  /\ cstate' = [cstate EXCEPT ![c] = "exited"]
  /\ lastActual' = now
  /\ UNCHANGED <<cfgVars, now, LastRun, LastFin, RunMux, Cmd, birthVars,
                 Death, deathBuf, Kills, Living, sigkilled, pc, dVars,
                 mainVars, watchVars, sigVars, gcVars, exitCode, viaCleanup, callVars>>

\* run.LastFin = time.Now()     (outside RunMux)
CFin(c) ==
  /\ Alive
  /\ cstate[c] \in {"exited", "failed"}
  /\ cstate' = [cstate EXCEPT ![c] =
                  IF cstate[c] = "exited" THEN "finset" ELSE "failedfin"]
  /\ LastFin' = now
  /\ UNCHANGED <<cfgVars, now, LastRun, RunMux, Cmd, birthVars, Death,
                 deathBuf, Kills, Living, sigkilled, pc, dVars,
                 mainVars, watchVars, sigVars, gcVars, exitCode,
                 lastActual, viaCleanup, callVars>>

\* run.Death <- e     (the channel run.Death names at this moment)
CSend(c) ==
  /\ Alive
  /\ cstate[c] \in {"finset", "failedfin"}
  /\ Death # NilChan
  /\ Len(deathBuf[Death]) < DeathCap
  /\ deathBuf' = [deathBuf EXCEPT ![Death] =
                    Append(@, c)]
  /\ cstate' = [cstate EXCEPT ![c] =
                  IF cstate[c] = "finset" THEN "sent" ELSE "failedsent"]
  /\ UNCHANGED <<cfgVars, now, LastRun, LastFin, RunMux, Cmd, birthVars,
                 Death, Kills, Living, sigkilled, pc, dVars, mainVars,
                 watchVars, sigVars, gcVars, exitCode, lastActual, viaCleanup, callVars>>

\* ------------------------------------------------------ handleFSEvents
\* top of the for loop: the select evaluates run.Death
DLoop ==
  /\ Alive
  /\ pc["D"] = "loop"
  /\ dDeath' = Death
  /\ ret' = <<>>
  /\ pc' = [pc EXCEPT !["D"] = "select"]
  /\ UNCHANGED <<ev, cfgVars, now, LastRun, LastFin, RunMux, Cmd, birthVars,
                 Death, deathBuf, Kills, Living, cstate, sigkilled,
                 mainVars, watchVars, sigVars, gcVars, exitCode,
                 lastActual, viaCleanup, callVars>>

\* case sig := <-run.Kills: run.gracefulCleanup(sig)
DKills ==
  /\ Alive
  /\ pc["D"] = "select"
  /\ Kills > 0
  /\ Kills' = Kills - 1
  /\ taken' = taken + 1
  /\ pc' = [pc EXCEPT !["D"] = "gc"]
  /\ UNCHANGED <<cfgVars, now, LastRun, LastFin, RunMux, Cmd, birthVars,
                 Death, deathBuf, Living, cstate, sigkilled, dVars,
                 mainVars, watchVars, nSignals, gcVars, exitCode,
                 lastActual, viaCleanup, callVars>>

\* case <-run.Death: run.Living = nil
DDeath ==
  /\ Alive
  /\ pc["D"] = "select"
  /\ dDeath # NilChan
  /\ deathBuf[dDeath] # <<>>
  /\ deathBuf' = [deathBuf EXCEPT ![dDeath] = Tail(@)]
  /\ Living' = 0
  /\ pc' = [pc EXCEPT !["D"] = "loop"]
  /\ UNCHANGED <<cfgVars, now, LastRun, LastFin, RunMux, Cmd, birthVars,
                 Death, Kills, cstate, sigkilled, dVars, mainVars,
                 watchVars, sigVars, gcVars, exitCode, lastActual,
                 viaCleanup, callVars>>

\* case ev := <-in without the check of run.Living
DEventAlwaysRuns ==
  /\ Alive
  /\ pc["D"] = "select"
  /\ pcW = "send"
  /\ pcW' = "recv"
  /\ ev' = outEv
  /\ pc' = [pc EXCEPT !["D"] = "lock"]
  /\ Called("D")
  /\ UNCHANGED <<cfgVars, now, LastRun, LastFin, RunMux, Cmd, birthVars,
                 Death, deathBuf, Kills, Living, cstate, sigkilled,
                 dDeath, ret, mainVars, nEvents, outEv, sigVars, gcVars, exitCode,
                 lastActual, viaCleanup, startCall>>

\* case ev := <-in: dropped while a child is living and CLOBBER is unset,
\* otherwise maybeRun(&ev, true)
DEvent ==
  /\ Alive
  /\ pc["D"] = "select"
  /\ pcW = "send"
  /\ pcW' = "recv"
  /\ ev' = outEv
  /\ pc' = [pc EXCEPT !["D"] =
              IF Living # 0 /\ ~clobber THEN "loop" ELSE "lock"]
  /\ IF Living # 0 /\ ~clobber THEN UNCHANGED calledAt ELSE Called("D")
  /\ UNCHANGED <<cfgVars, now, LastRun, LastFin, RunMux, Cmd, birthVars,
                 Death, deathBuf, Kills, Living, cstate, sigkilled,
                 dDeath, ret, mainVars, nEvents, outEv, sigVars, gcVars, exitCode,
                 lastActual, viaCleanup, startCall>>

\* ------------------------------------------------------ gracefulCleanup
\* found, e := run.cleanupExistant(false); explainAttempt(e, !found)
GCleanup ==
  /\ Alive
  /\ pc["D"] = "gc"
  /\ LET failed == Living # 0 /\ ~KillOk(Living)
     IN  /\ sigkilled' = IF Living # 0 /\ KillOk(Living)
                           THEN [sigkilled EXCEPT ![Living] = TRUE]
                           ELSE sigkilled
         /\ gcStatus' = explainAttempt(gcStatus, failed)
         /\ gcErrs' = Append(gcErrs, failed)
  /\ pc' = [pc EXCEPT !["D"] = "gcClose"]
  /\ UNCHANGED <<cfgVars, now, LastRun, LastFin, RunMux, Cmd, birthVars,
                 Death, deathBuf, Kills, Living, cstate, dVars,
                 mainVars, watchVars, sigVars, watcherClosed, exitCode,
                 lastActual, viaCleanup, callVars>>

\* e = run.fsWatcher.Close(); explainAttempt(e, false); os.Exit(exitStatus)
GClose ==
  /\ Alive
  /\ pc["D"] = "gcClose"
  /\ \E failed \in BOOLEAN :
       /\ gcStatus' = explainAttempt(gcStatus, failed)
       /\ gcErrs' = Append(gcErrs, failed)
  /\ watcherClosed' = TRUE
  /\ exitCode' = gcStatus'
  /\ pc' = [pc EXCEPT !["D"] = "exited"]
  /\ UNCHANGED <<cfgVars, now, LastRun, LastFin, RunMux, Cmd, birthVars,
                 Death, deathBuf, Kills, Living, cstate, sigkilled,
                 dVars, mainVars, watchVars, sigVars, lastActual, viaCleanup, callVars>>

\* -------------------------------------------------------- watchFSEvents
\* watchFSEvents that takes the next raw event without waiting for out <- e
\* to be received: an undelivered event is replaced
WEventOverwrites ==
  /\ Alive
  /\ subscribed > 0
  /\ ~watcherClosed
  /\ nEvents < MaxEvents
  /\ pcW' = "send"
  /\ nEvents' = nEvents + 1
  /\ outEv' = nEvents + 1
  /\ UNCHANGED <<cfgVars, now, LastRun, LastFin, RunMux, Cmd, birthVars,
                 Death, deathBuf, Kills, Living, cstate, sigkilled,
                 pc, dVars, mainVars, sigVars, gcVars, exitCode,
                 lastActual, viaCleanup, callVars>>

\* case e := <-run.fsWatcher.Events: drop it when the filter rejects it,
\* else go on to out <- e
WEvent ==
  /\ Alive
  /\ pcW = "recv"
  /\ subscribed > 0
  /\ ~watcherClosed
  /\ nEvents < MaxEvents
  /\ \E rejected \in BOOLEAN :
       IF rejected
         THEN UNCHANGED <<pcW, nEvents, outEv>>
         ELSE /\ pcW' = "send"
              /\ nEvents' = nEvents + 1
              /\ outEv' = nEvents + 1
  /\ UNCHANGED <<cfgVars, now, LastRun, LastFin, RunMux, Cmd, birthVars,
                 Death, deathBuf, Kills, Living, cstate, sigkilled,
                 pc, dVars, mainVars, sigVars, gcVars, exitCode,
                 lastActual, viaCleanup, callVars>>

\* case err := <-run.fsWatcher.Errors: die(exFsevent, err)
WError ==
  /\ Alive
  /\ pcW = "recv"
  /\ exitCode' = exFsevent
  /\ UNCHANGED <<cfgVars, now, LastRun, LastFin, RunMux, Cmd, birthVars,
                 Death, deathBuf, Kills, Living, cstate, sigkilled,
                 pc, dVars, mainVars, watchVars, sigVars, gcVars,
                 lastActual, viaCleanup, callVars>>

\* ------------------------------------------------------- setup and main
\* registerDirectoriesToWatch, one target: count++, fsWatcher.Add(t)
Register ==
  /\ Alive
  /\ pcMain = "register"
  /\ count' = count + 1
  /\ \E ok \in BOOLEAN :
       IF ok
         THEN /\ subscribed' = subscribed + 1
              /\ pcMain' = IF count + 1 = NTargets THEN "gorun" ELSE "register"
         ELSE /\ pcMain' = "failed"
              /\ UNCHANGED subscribed
  /\ UNCHANGED <<cfgVars, now, LastRun, LastFin, RunMux, Cmd, birthVars,
                 Death, deathBuf, Kills, Living, cstate, sigkilled,
                 pc, dVars, watchVars, sigVars, gcVars, exitCode,
                 lastActual, viaCleanup, callVars>>

\* main that closes the watcher itself before it dies
SetupFailedClosesWatcher ==
  /\ Alive
  /\ pcMain = "failed"
  /\ watcherClosed' = TRUE
  /\ exitCode' = exWatcher
  /\ UNCHANGED <<cfgVars, now, LastRun, LastFin, RunMux, Cmd, birthVars,
                 Death, deathBuf, Kills, Living, cstate, sigkilled,
                 pc, dVars, mainVars, watchVars, sigVars, gcStatus, gcErrs,
                 lastActual, viaCleanup, callVars>>

\* setup returned "registering FS watchers: ..."; main: die(exWatcher, e)
SetupFailed ==
  /\ Alive
  /\ pcMain = "failed"
  /\ exitCode' = exWatcher
  /\ UNCHANGED <<cfgVars, now, LastRun, LastFin, RunMux, Cmd, birthVars,
                 Death, deathBuf, Kills, Living, cstate, sigkilled,
                 pc, dVars, mainVars, watchVars, sigVars, gcVars,
                 lastActual, viaCleanup, callVars>>

\* go run.maybeRun(nil, true)
GoStartup ==
  /\ Alive
  /\ pcMain = "gorun"
  /\ pcMain' = "notify"
  /\ pc' = [pc EXCEPT !["S"] = "lock"]
  /\ Called("S")
  /\ UNCHANGED <<cfgVars, now, LastRun, LastFin, RunMux, Cmd, birthVars,
                 Death, deathBuf, Kills, Living, cstate, sigkilled,
                 dVars, count, subscribed, watchVars, sigVars, gcVars,
                 exitCode, lastActual, viaCleanup, startCall>>

\* signal.Notify(run.Kills, os.Interrupt); main hangs
Notify ==
  /\ Alive
  /\ pcMain = "notify"
  /\ pcMain' = "hang"
  /\ UNCHANGED <<cfgVars, now, LastRun, LastFin, RunMux, Cmd, birthVars,
                 Death, deathBuf, Kills, Living, cstate, sigkilled,
                 pc, dVars, count, subscribed, watchVars, sigVars, gcVars,
                 exitCode, lastActual, viaCleanup, callVars>>

\* an interrupt is delivered: a non-blocking send on the buffered Kills
Interrupt ==
  /\ Alive
  /\ pcMain = "hang"
  /\ nSignals < MaxSignals
  /\ nSignals' = nSignals + 1
  /\ Kills' = IF Kills < KillsCap THEN Kills + 1 ELSE Kills
  /\ UNCHANGED <<taken, cfgVars, now, LastRun, LastFin, RunMux, Cmd, birthVars,
                 Death, deathBuf, Living, cstate, sigkilled, pc,
                 dVars, mainVars, watchVars, gcVars, exitCode, lastActual,
                 viaCleanup, callVars>>

\* ---------------------------------------------------------------- system
Next ==
  \/ Tick
  \/ \E g \in Procs : MCheck(g)
  \/ \E g \in Procs : MAssign(g)
  \/ \E g \in Procs : MCleanup(g)
  \/ \E g \in Procs : MWaitDeath(g)
  \/ \E g \in Procs : MBorn(g)
  \/ \E c \in Children : CStart(c)
  \/ \E c \in Children : CExit(c)
  \/ \E c \in Children : CFin(c)
  \/ \E c \in Children : CSend(c)
  \/ DLoop
  \/ DKills
  \/ DDeath
  \/ DEvent
  \/ GCleanup
  \/ GClose
  \/ WEvent
  \/ WError
  \/ Register
  \/ SetupFailed
  \/ GoStartup
  \/ Notify
  \/ Interrupt

Spec == Init /\ [][Next]_vars

TypeOK ==
  /\ now \in Epoch..(Epoch + MaxTime)
  /\ LastRun \in {ZeroTime} \cup Epoch..(Epoch + MaxTime)
  /\ LastFin \in {ZeroTime} \cup Epoch..(Epoch + MaxTime)
  /\ Living \in 0..MaxRuns
  /\ Cmd \in 0..MaxRuns
  /\ Death \in 0..MaxRuns
  /\ Kills \in 0..KillsCap
  /\ taken \in 0..MaxSignals
  /\ outEv \in 0..MaxEvents
  /\ ev \in 0..MaxEvents
  /\ ret \in {<<>>, <<FALSE, "nil">>, <<TRUE, "nil">>, <<TRUE, "e">>, <<TRUE, "interrupted">>}
  /\ exitCode \in {NotExited, 0, 1, exWatcher, exFsevent}
  /\ calledAt \in [Procs -> {0} \cup Epoch..(Epoch + MaxTime)]
  /\ startCall \in {0} \cup Epoch..(Epoch + MaxTime)


\* ------------------------------------------------------------ the filter
\* Strings are sequences of characters; a path is the sequence of its
\* components, each one character long, the separators left out. A
\* pattern is one character, and as a regular expression it matches every
\* string that contains it.
Letters == {"a", "b"}

\* regexp.Regexp.MatchString
MatchString(expr, str) == \E i \in 1..Len(str) : str[i] = expr

\* filepath.Base: the last element of the path
Base(name) == <<name[Len(name)]>>

\* the loop of isRejected from matcher i on: the first matcher that
\* rejects decides
RECURSIVE isRejectedFrom(_, _, _)
isRejectedFrom(ch, name, i) ==
  IF i > Len(ch)
    THEN FALSE
    ELSE IF ch[i].IsIgnore
      THEN IF MatchString(ch[i].Expr, Base(name))
             THEN TRUE
             ELSE isRejectedFrom(ch, name, i + 1)
      ELSE IF ~MatchString(ch[i].Expr, Base(name))
             THEN TRUE
             ELSE isRejectedFrom(ch, name, i + 1)

isRejected(ch, name) ==
  IF Len(ch) = 0 THEN FALSE ELSE isRejectedFrom(ch, name, 1)

Matchers == [IsIgnore : BOOLEAN, Expr : Letters]
Chains == UNION {[1..n -> Matchers] : n \in 0..MaxChain}
Names == UNION {[1..n -> Letters] : n \in 1..MaxDepth}

\* a directive with some chain of patterns, no event filtered yet
FilterInit ==
  /\ clobber = FALSE
  /\ WaitFor = 0
  /\ quiet = FALSE
  /\ items = <<>>
  /\ argv = <<>>
  /\ parseErr = "unparsed"
  /\ Patterns \in Chains
  /\ evName = <<>>
  /\ verdict = "none"
  /\ InitRun

\* watchFSEvents: run.isRejected(run.Patterns, e) for an event e
FilterEvent ==
  \E name \in Names :
    /\ evName' = name
    /\ verdict' = IF isRejected(Patterns, name) THEN "rejected" ELSE "accepted"
    /\ UNCHANGED <<clobber, WaitFor, quiet, Patterns, cliVars, runVars>>

FilterNext == FilterEvent

FilterSpec == FilterInit /\ [][FilterNext]_vars

\* ------------------------------------------------------------- parseCli
\* An argument is one token. A command line is written as a sequence of
\* items: a flag alone, a flag with its value, or a positional argument;
\* os.Args[1:] is the items laid end to end.
MaxItems == 4          \* items on the command line

defaultWaitTime == 2   \* seconds

Switches == {"-c", "-q"}
PatternValues == {"a", "-r", "("}   \* "(" is not a regular expression
WaitValues == {"-1", "0", "x"}      \* "x" is not an integer
Positionals == {"a", "dir"}         \* "dir" names a directory, "a" names nothing

Items ==
  {<<f>> : f \in Switches}
    \cup {<<f, p>> : f \in {"-i", "-r"}, p \in PatternValues}
    \cup {<<"-w", n>> : n \in WaitValues}
    \cup {<<p>> : p \in Positionals}

CommandLines == UNION {[1..n -> Items] : n \in 0..MaxItems}

\* the arguments of a command line, in order
RECURSIVE Flatten(_)
Flatten(its) ==
  IF its = <<>> THEN <<>> ELSE Head(its) \o Flatten(Tail(its))

\* strconv.Atoi: whether s is a decimal integer, and its value
AtoiOk(s) == s \in {"-1", "0", "1", "2"}
Atoi(s) ==
  CASE s = "-1" -> 0 - 1
    [] s = "0" -> 0
    [] s = "1" -> 1
    [] s = "2" -> 2

\* regexp.Compile succeeds
Compiles(p) == p # "("

\* arg[0] == '-'
DashFirst(arg) ==
  arg \in {"-c", "-q", "-d", "-R", "-h", "--help", "-w", "-i", "-r", "-1"}

\* os.Stat succeeds and the file is a directory
IsDir(p) == p = "dir"

\* the zero matcher
nilMatcher == [IsIgnore |-> FALSE, Expr |-> "nil"]

\* a matcher whose mode is never set to IGNORE
newMatcherRestrictOnly(arg, ptrn) == [IsIgnore |-> FALSE, Expr |-> ptrn]

\* var m matcher; if arg == "-i" { m.IsIgnore = true }; m.Expr = ptrn
newMatcher(arg, ptrn) == [IsIgnore |-> arg = "-i", Expr |-> ptrn]

\* buildBaseDirective, with $SHELL naming an existing file: Patterns has
\* len(os.Args)-2 zero matchers, WatchTargets len(os.Args) strings of which
\* the first is "./"
buildBaseDirective(args) ==
  [clobber |-> FALSE, quiet |-> FALSE, WaitFor |-> defaultWaitTime,
   Patterns |-> [k \in 1..(Len(args) - 1) |-> nilMatcher],
   WatchTargets |-> [k \in 1..(Len(args) + 1) |-> IF k = 1 THEN "./" ELSE ""],
   Command |-> "", ptrnCount |-> 0, trgtCount |-> 0, err |-> "nil"]

Fail(d, stage) == [d EXCEPT !.err = stage]

\* the loop of parseCli from args[i] on
RECURSIVE parseFrom(_, _, _)
parseFrom(args, i, d) ==
  IF i > Len(args) THEN d
  ELSE LET arg == args[i] IN
    CASE arg = "-d" -> parseFrom(args, i + 1, d)
      [] arg = "-c" -> parseFrom(args, i + 1, [d EXCEPT !.clobber = TRUE])
      [] arg = "-R" -> parseFrom(args, i + 1, d)
      [] arg = "-q" -> parseFrom(args, i + 1, [d EXCEPT !.quiet = TRUE])
      [] arg \in {"-h", "h", "--help", "help"} -> Fail(d, "psHelp")
      [] arg = "-w" ->
           IF Len(args) = i THEN Fail(d, "psBadDuration")
           ELSE IF ~AtoiOk(args[i + 1]) THEN Fail(d, "psBadDuration")
           ELSE parseFrom(args, i + 2, [d EXCEPT !.WaitFor = Atoi(args[i + 1])])
      [] arg \in {"-i", "-r"} ->
           IF Len(args) = i THEN Fail(d, "psFilePattern")
           ELSE IF ~Compiles(args[i + 1]) THEN Fail(d, "psFilePattern")
           ELSE IF d.ptrnCount + 1 > Len(d.Patterns) THEN Fail(d, "panic")
           ELSE parseFrom(args, i + 2,
                  [d EXCEPT !.ptrnCount = @ + 1,
                            !.Patterns[d.ptrnCount + 1] = newMatcher(arg, args[i + 1])])
      [] OTHER ->
           IF arg = "" THEN Fail(d, "psInvalidFlag")
           ELSE IF DashFirst(arg) THEN Fail(d, "psInvalidFlag")
           ELSE IF d.Command = "" THEN parseFrom(args, i + 1, [d EXCEPT !.Command = arg])
           ELSE IF ~IsDir(arg) THEN Fail(d, "psWatchTarget")
           ELSE parseFrom(args, i + 1,
                  [d EXCEPT !.trgtCount = @ + 1,
                            !.WatchTargets[d.trgtCount + 1] = arg])

\* validateDirective, after the excess of Patterns and WatchTargets is
\* sliced off
validateDirective(d) ==
  IF d.Command = "" THEN Fail(d, "psCommand")
  ELSE IF Len(d.WatchTargets) < 1 THEN Fail(d, "psWatchTarget")
  ELSE IF \A k \in 1..Len(d.WatchTargets) : d.WatchTargets[k] = ""
    THEN Fail(d, "psWatchTarget")
  ELSE d

parseCli(args) ==
  IF Len(args) < 1 THEN Fail(buildBaseDirective(<<"">>), "psNumArgs")
  ELSE LET d == parseFrom(args, 1, buildBaseDirective(args)) IN
    IF d.err # "nil" THEN d
    ELSE validateDirective(
           [d EXCEPT !.Patterns = SubSeq(d.Patterns, 1, d.ptrnCount),
                     !.WatchTargets = IF d.trgtCount = 0
                                        THEN SubSeq(d.WatchTargets, 1, 1)
                                        ELSE SubSeq(d.WatchTargets, 1, d.trgtCount)])

\* the process starts with some command line; nothing is parsed yet and
\* no goroutine runs
ParseInit ==
  /\ items \in CommandLines
  /\ argv = Flatten(items)
  /\ parseErr = "unparsed"
  /\ clobber = FALSE
  /\ quiet = FALSE
  /\ WaitFor = defaultWaitTime
  /\ Patterns = <<>>
  /\ evName = <<>>
  /\ verdict = "none"
  /\ InitRun

\* main: directive, e := parseCli(); a directive exists on success only
ParseCli ==
  /\ parseErr = "unparsed"
  /\ LET d == parseCli(argv) IN
       /\ parseErr' = d.err
       /\ IF d.err = "nil"
            THEN /\ clobber' = d.clobber
                 /\ quiet' = d.quiet
                 /\ WaitFor' = d.WaitFor
                 /\ Patterns' = d.Patterns
            ELSE UNCHANGED <<clobber, quiet, WaitFor, Patterns>>
  /\ UNCHANGED <<items, argv, evName, verdict, runVars>>

ParseNext == ParseCli

ParseSpec == ParseInit /\ [][ParseNext]_vars

\* ================================================================ claims
\* the effective debounce window: WaitFor, doubled in CLOBBER mode
Window == IF clobber THEN 2 * WaitFor ELSE WaitFor

\* a child process is started in this step
ChildStarts == \E c \in Children : cstate[c] = "starting" /\ cstate'[c] = "running"

\* the children that were born: their process was started
Born == {c \in Children : HasProcess(c)}

\* the exit value of child c has been taken out of a Death channel
Received(c) == cstate[c] = "sent" /\ \A ch \in Chans : \A i \in 1..Len(deathBuf[ch]) : deathBuf[ch][i] # c

\* C1: in every reachable state at most one child command that has been
\* spawned has not yet exited.
C1_AtMostOneChild == Cardinality({c \in Children : Running(c)}) <= 1

\* C2 as claimed: a child is spawned at time t only if t is more than the
\* effective window after the actual start and the actual finish of every
\* earlier run.
C2_SpawnOutsideActualWindow == [][ChildStarts => (lastActual = 0 \/ now - lastActual > Window)]_vars

\* C2 as amended: maybeRun goes on to a run only if, when it checks, more
\* than the effective window has passed since the recorded LastRun and the
\* recorded LastFin (the zero time counting as long ago); so two
\* successive runs are decided more than the window apart.
C2_SpawnOutsideRecordedWindow == [][((\E g \in Procs : pc[g] = "lock" /\ pc'[g] = "assign") => (now - LastRun > Window /\ now - LastFin > Window)) /\ (LastRun' # LastRun => LastRun' - LastRun > Window)]_vars

\* a second run was decided with a debounce window of at least one tick
C2_Witness == Death >= 2 /\ WaitFor > 0 /\ LastRun > Epoch

\* C3 as claimed: in CLOBBER mode, when a new child is spawned every
\* earlier child that was born has exited and cleanupExistant(true) has
\* received its death value.
C3_DeathReceivedByCleanup == clobber => \A c \in Children : cstate[c] # "none" => \A b \in Born : b < c => b \in viaCleanup

\* C3 as amended: in CLOBBER mode, when a new child is spawned every
\* earlier child that was born has exited and its death value has been
\* received, by cleanupExistant(true) or by the dispatcher's select.
C3_DeathReceivedBeforeSpawn == clobber => \A c \in Children : cstate[c] # "none" => \A b \in Born : b < c => Received(b)

\* a clobbered child was waited for and its replacement is running
C3_Witness == clobber /\ 1 \in viaCleanup /\ Running(2)

\* the Dispatcher's maybeRun call checks isRecent in this step
DChecks == pc["D"] = "lock" /\ pc'["D"] # "lock"

\* the Dispatcher takes an accepted event from the Filter in this step
DReceives == pc["D"] = "select" /\ pcW = "send" /\ pcW' = "recv"

\* C4: in CLOBBER mode, when the Dispatcher handles an accepted event while
\* a child is running and more than 2*WaitFor has passed since the last
\* start, the event's run is not rejected: it goes on to the kill of the
\* child and the start of a new one.
C4_ClobberRestarts == [][(DChecks /\ clobber /\ (\E c \in Children : Running(c)) /\ now - LastRun > 2 * WaitFor) => pc'["D"] = "assign"]_vars

\* C5: an accepted event that the Dispatcher takes when no child is running
\* (every child that was spawned has exited and its death value was sent)
\* and more than the effective window has passed since the last start and
\* the last finish is not dropped: maybeRun is called for it.
C5_EventNotDropped == [][(DReceives /\ (\A c \in Children : cstate[c] \in {"none", "sent"}) /\ now - LastRun > Window /\ now - LastFin > Window /\ now - lastActual > Window) => pc'["D"] = "lock"]_vars

\* C6: an accepted event taken while a child is living and CLOBBER is unset
\* does not call maybeRun: no child is spawned or signalled, and LastRun,
\* LastFin, Living and the Birth and Death channels are unchanged.
C6_DropLeavesStateAlone == [][(DReceives /\ Living # 0 /\ ~clobber) => (pc'["D"] = "loop" /\ UNCHANGED <<LastRun, LastFin, Living, Birth, birthBuf, birthClosed, Death, deathBuf, Cmd, cstate, sigkilled, RunMux>>)]_vars

\* two events were accepted and taken, the first started the only run and
\* its child is still living: the second was dropped
C6_Witness == ~clobber /\ nEvents = 2 /\ pcW = "recv" /\ pc["S"] = "idle" /\ Death = 1 /\ Living = 1 /\ Running(1) /\ pc["D"] \in {"loop", "select"}

\* C7: a signal taken from Kills always starts gracefulCleanup; no other
\* code path consumes it.
C7_SignalAlwaysShutsDown == [][Kills' < Kills => pc'["D"] = "gc"]_vars

\* C8: when gracefulCleanup exits with status 0, every child that is
\* running has had SIGKILL sent to its process group.
C8_CleanExitKillsChildren == exitCode = 0 => \A c \in Children : Running(c) => sigkilled[c]

\* C9: when the supervisor has exited, for whatever reason, every child
\* it spawned has exited or has had SIGKILL sent to its process group.
C9_NoChildSurvivesExit == ~Alive => \A c \in Children : cstate[c] = "running" => sigkilled[c]

\* C10: gracefulCleanup exits with status 0 iff neither cleanup step
\* returned an error, and with status 1 otherwise.
C10_ExitStatus == pc["D"] = "exited" => (Len(gcErrs) = 2 /\ exitCode = (IF gcErrs[1] \/ gcErrs[2] THEN 1 ELSE 0))

\* gracefulCleanup exited 1 because the kill of the living child failed
\* though the watcher closed cleanly
C10_Witness == pc["D"] = "exited" /\ gcErrs = <<TRUE, FALSE>> /\ exitCode = 1

\* C11: gracefulCleanup runs at most once and for the first signal that
\* was delivered: no signal was taken from Kills before the one that starts
\* it, so the exit is the one the first signal alone would have produced.
C11_FirstSignalShutsDown == [][(pc["D"] # "gc" /\ pc'["D"] = "gc") => taken = 0]_vars

\* exec.Cmd.Run failed to start the process: run.Cmd.Process stays nil
SpawnFailed(c) == cstate[c] \in {"failed", "failedfin", "failedsent"}

\* caller g of maybeRun waits for the birth of a child that was never spawned
Hung(g) == pc[g] = "born" /\ SpawnFailed(Cmd)

\* C12: when the spawn has failed and its error was sent on Death, the
\* maybeRun call that made it can go on to return and release RunMux.
C12_SpawnFailureReturns == \A g \in Procs : (Alive /\ pc[g] = "born" /\ cstate[Cmd] = "failedsent") => ENABLED MBorn(g)

\* cleanupExistant(true), called for g, finds a living child it cannot kill
KillFails(g) == pc[g] = "cleanup" /\ pc'[g] # "cleanup" /\ Living # 0 /\ ~KillOk(Living)

\* the Dispatcher's run reaches cleanupExistant(true) after an earlier run
\* was given up (fewer commands were built than runs were accepted), and
\* every child that was spawned has exited and sent its death value
DRetriesAfterKillFailure == pc["D"] = "cleanup" /\ pc'["D"] # "cleanup" /\ Cmd < Death - 1 /\ \A c \in Children : cstate[c] \in {"none", "sent"}

\* C13: in CLOBBER mode a failed kill spawns no replacement and does not
\* end the supervisor, and the Dispatcher can still start a run for a later
\* accepted event once the child is gone and the window has passed.
C13_KillFailureRecovers == [][((\E g \in Procs : KillFails(g)) => (Cmd' = Cmd /\ cstate' = cstate /\ exitCode' = NotExited)) /\ (DRetriesAfterKillFailure => pc'["D"] = "born")]_vars

\* C14: in CLOBBER mode, when cleanupExistant(true) returns an error, the
\* maybeRun call returns false together with a non-nil error.
C14_KillFailureReturnsError == [][KillFails("D") => (Len(ret') = 2 /\ ret'[1] = FALSE /\ ret'[2] # "nil")]_vars

\* the Dispatcher is inside a maybeRun call that can never return
DStuck == Hung("D") \/ (pc["D"] = "lock" /\ RunMux \in Procs /\ Hung(RunMux))

\* C15: an error on fsWatcher.Errors is read whatever the Runner is doing,
\* and ends the supervisor with status 3: watchFSEvents is never left
\* waiting on out <- e for a Dispatcher that is blocked for good, where no
\* error would be read any more.
C15_StreamErrorAlwaysRead == ~(Alive /\ pcW = "send" /\ DStuck)

\* C16: the filter accepts an event path iff no IGNORE matcher of the chain
\* matches the path and every RESTRICT matcher of the chain matches it; an
\* empty chain accepts every event.
C16_AcceptIffChainPasses == verdict # "none" => ((verdict = "accepted") <=> \A i \in 1..Len(Patterns) : (Patterns[i].IsIgnore <=> ~MatchString(Patterns[i].Expr, evName)))

\* C17: a matcher is applied to the event's full path, so a chain of one
\* pattern rejects exactly by whether the pattern matches the path, its
\* directory components included.
C17_MatchesFullPath == (verdict # "none" /\ Len(Patterns) = 1) => ((verdict = "rejected") <=> (Patterns[1].IsIgnore <=> MatchString(Patterns[1].Expr, evName)))

\* C18: the Dispatcher receives the accepted events in the order in which
\* watchFSEvents accepted them, each one once: the event it takes is the
\* one numbered next after the event it took last.
C18_EventsInOrder == [][DReceives => (ev' = ev + 1 /\ ev' = outEv)]_vars

\* the Dispatcher has taken the second accepted event, after the first
C18_Witness == ev = 2 /\ nEvents = 2 /\ pcW = "recv"

\* C19: with WaitFor = 0 an accepted event whose maybeRun call checks the
\* window while no child is running starts a run, also in the very instant
\* of the previous run's start or finish.
C19_NoDebounceAtZero == [][(DChecks /\ WaitFor = 0 /\ \A c \in Children : cstate[c] \in {"none", "sent"}) => pc'["D"] = "assign"]_vars

\* C20: a child command exists only after every watch target has been
\* registered; while registration is under way or has failed no child has
\* been started.
C20_NoChildBeforeRegistration == pcMain \in {"register", "failed"} => \A c \in Children : cstate[c] = "none"

\* C21: the supervisor's exit never depends on a child's outcome. It exits
\* only by a failed startup (status exWatcher), a fatal watcher error
\* (status exFsevent) or an interrupt, and the status of an interrupt's
\* exit is decided by the shutdown alone (1 when closing the watcher
\* failed, else 0), whatever any child did.
C21_ExitNotFromChild == [][(Alive /\ exitCode' # NotExited) => (\/ (exitCode' = exWatcher /\ pcMain = "failed") \/ (exitCode' = exFsevent /\ pcW = "recv") \/ (pc["D"] = "gcClose" /\ exitCode' = (IF gcErrs'[2] THEN 1 ELSE 0)))]_vars

\* the patterns the command line gives with -i and -r, in its order, each
\* with the mode of its flag
GivenPatterns(its) ==
  LET ps == SelectSeq(its, LAMBDA it : it[1] \in {"-i", "-r"})
  IN  [k \in 1..Len(ps) |-> [IsIgnore |-> ps[k][1] = "-i", Expr |-> ps[k][2]]]

\* C24: after a successful parseCli the pattern chain holds exactly the
\* patterns given with -i and -r, in command-line order, each IGNORE for
\* -i and RESTRICT for -r, however they are interleaved with other flags
\* and positional arguments.
C24_PatternsInOrder == parseErr = "nil" => Patterns = GivenPatterns(items)

\* an -i pattern, COMMAND, a directory and an -r pattern were parsed
C24_Witness == parseErr = "nil" /\ Len(items) = 4 /\ items[1][1] = "-i" /\ items[4][1] = "-r" /\ Len(Patterns) = 2 /\ Patterns[1].IsIgnore /\ ~Patterns[2].IsIgnore

\* C25: after a successful parseCli WaitFor is never negative, whatever
\* integer was given to -w (0 means no debounce).
C25_WaitForNotNegative == parseErr = "nil" => WaitFor >= 0

\* the dispatcher's maybeRun(&ev, true) returns without having run: the
\* event was debounced ("lock") or the clobbering kill failed ("cleanup")
DNotRan == pc["D"] \in {"lock", "cleanup"} /\ pc'["D"] = "loop"

\* the dispatcher drops the event it receives: a child is living and
\* CLOBBER is unset
DDrops == DReceives /\ pc'["D"] = "loop"

\* what handleFSEvents writes to stderr in a step on behalf of an event:
\* if ran, _ := run.maybeRun(&ev, true); !ran { fmt.Fprintf(os.Stderr, ".") }
DTick == IF DNotRan THEN "." ELSE ""

tickDropStillRunning == "_"
tickClobberUnnecessary == "-"
tickClobberFailed == "e"

\* the tick that names the disposition of an event that starts no run
DispositionTick ==
  CASE DDrops -> tickDropStillRunning
    [] DNotRan /\ pc["D"] = "lock" -> tickClobberUnnecessary
    [] DNotRan /\ pc["D"] = "cleanup" -> tickClobberFailed
    [] OTHER -> ""

\* C22: with QUIET set the dispatcher writes no tick to stderr for any
\* event, dropped or debounced.
C22_QuietNoTick == [][quiet => DTick = ""]_vars

\* C23: with QUIET unset every accepted event that starts no run produces
\* the one tick of its disposition: dropped while a child is running,
\* debounced or clobber unnecessary, or clobber failed.
C23_TickPerDisposition == [][(~quiet /\ (DDrops \/ DNotRan)) => DTick = DispositionTick]_vars

\* C26: the count of registerDirectoriesToWatch is the number of
\* directories subscribed, when registration has succeeded and when a
\* subscribe call has failed.
C26_CountIsSubscribed == count = subscribed

\* C27: only the dispatcher writes Living: every step that changes
\* Living is a step of handleFSEvents.
C27_DispatcherAloneWritesLiving == [][Living' # Living => pc'["D"] # pc["D"]]_vars

\* some maybeRun call is between execAsync and the receipt of the birth
BirthPending == \E g \in Procs : pc[g] = "born"

\* C28: Living is non-nil iff a child has been observed born and has not
\* yet exited: Living never names a child that has exited, and is not nil
\* while a child whose birth has been dealt with is running.
C28_LivingIffChildRunning == (Living # 0 => Running(Living)) /\ (((\E c \in Children : Running(c)) /\ ~BirthPending) => Living # 0)

\* the living child has exited on its own and its death value is in
\* run.Death, while the dispatcher waits in its select
OwnDeathWaiting ==
  /\ Alive
  /\ pc["D"] = "select"
  /\ Living # 0
  /\ cstate[Living] = "sent"
  /\ ~sigkilled[Living]
  /\ Death # NilChan
  /\ deathBuf[Death] = <<Living>>

\* C29: once a child has exited on its own and its death value is sent,
\* the dispatcher waiting in its select can receive it and clear Living,
\* with no further event or signal; also for the startup run's child.
C29_DeathReceivedUnaided == OwnDeathWaiting => ENABLED DDeath

\* a step of the maybeRun call of g after its isRecent check
MaybeRunStep(g) == MAssign(g) \/ MCleanup(g) \/ MWaitDeath(g) \/ MBorn(g)

\* a step of some child-exit goroutine
ChildStep == \E c \in Children : CStart(c) \/ CExit(c) \/ CFin(c) \/ CSend(c)

\* C30: a maybeRun call that holds RunMux is never stuck: the call itself
\* or a child-exit goroutine it waits for (the birth, or the death after
\* a successful kill) can take a step.
C30_MaybeRunNeverStuck == \A g \in Procs : (Alive /\ RunMux = g) => ENABLED (MaybeRunStep(g) \/ ChildStep)

\* C31: RunMux is not held while a child command is running, and no
\* goroutine holds it while it waits for a child to exit.
C31_MutexNotHeldWhileChildRuns == (RunMux # "free" => \A c \in Children : ~Running(c)) /\ (\A g \in Procs : pc[g] = "waitdeath" => RunMux # g)

\* C32: every write of LastRun or LastFin is made by the goroutine that
\* holds RunMux (the assignments of maybeRun after its recency check).
C32_TimestampsWrittenUnderMutex == [][(LastRun' # LastRun \/ LastFin' # LastFin) => (RunMux \in Procs /\ pc[RunMux] = "assign" /\ pc'[RunMux] # "assign")]_vars

\* some maybeRun call is past its recency check and has not returned
CallInProgress == RunMux \in Procs

\* a run is in flight: its child is being started or is running, or has
\* ended without its goroutine having recorded the finish yet
InFlight(c) == cstate[c] \in {"starting", "running", "exited", "failed"}

\* C33: once the first run has started, LastFin is zero iff a run is in
\* flight; in particular LastFin is zero as long as a child is running,
\* the replacement child of a clobber included.
C33_LastFinZeroIffInFlight == Cmd > 0 => ((LastFin = ZeroTime => (CallInProgress \/ \E c \in Children : InFlight(c))) /\ ((\E c \in Children : Running(c)) => LastFin = ZeroTime))

\* a timestamp lies within the effective window; the zero time never does
WithinWindow(t) == t # ZeroTime /\ now - t <= Window

\* C34: the recency check of maybeRun rejects the call iff LastRun or
\* LastFin lies within the window, which is WaitFor without CLOBBER and
\* 2*WaitFor with it, a zero timestamp counting as infinitely old.
C34_IsRecentRule == [][\A g \in Procs : (pc[g] = "lock" /\ pc'[g] # "lock") => ((pc'[g] = Ret(g)) <=> (WithinWindow(LastRun) \/ WithinWindow(LastFin)))]_vars

\* in CLOBBER mode, with nothing living, the dispatcher's call was rejected
\* at an age of exactly 2*WaitFor of both timestamps
C34_Witness == pc["D"] = "loop" /\ ret = <<FALSE, "nil">> /\ Living = 0 /\ clobber /\ WaitFor = 1 /\ now - LastRun = 2 /\ now - LastFin = 2

\* the maybeRun call of g returns at its recency check
Rejected(g) == pc[g] = "lock" /\ pc'[g] = Ret(g)

\* C35: a maybeRun call rejected by the recency window returns
\* (false, nil) and leaves LastRun, LastFin, Living, Birth and Death as
\* they were; no child is spawned and none is killed.
C35_RejectionChangesNothing == [][\A g \in Procs : Rejected(g) => ((g = "D" => ret' = <<FALSE, "nil">>) /\ UNCHANGED <<LastRun, LastFin, Living, Birth, Death, Cmd, cstate, sigkilled>>)]_vars

\* in CLOBBER mode the dispatcher's call was rejected while the only child
\* is living; the child runs on, unkilled
C35_Witness == pc["D"] = "loop" /\ ret = <<FALSE, "nil">> /\ clobber /\ Cmd = 1 /\ Living = 1 /\ Running(1) /\ ~sigkilled[1]

\* C37: the watcher is closed only by gracefulCleanup, after the kill of
\* the living child has been attempted; and once the kill has been
\* attempted the close can be attempted, whether the kill failed or not.
C37_WatcherClosedByShutdown == []((Alive /\ pc["D"] = "gcClose") => ENABLED GClose) /\ [][(watcherClosed' /\ ~watcherClosed) => (pc["D"] = "gcClose" /\ Len(gcErrs) = 1)]_vars

\* the watcher was closed after the kill of the living child had failed
C37_Witness == watcherClosed /\ Len(gcErrs) = 2 /\ gcErrs[1]

\* the child-exit goroutine of c is at run.Death <- e and the channel is full
SendBlocked(c) ==
  /\ cstate[c] \in {"finset", "failedfin"}
  /\ Death # NilChan
  /\ Len(deathBuf[Death]) = DeathCap

\* some goroutine is receiving from the channel run.Death names, or will
\* do so or replace the channel without a further event or signal
DeathReceivable ==
  \/ pc["D"] = "select" /\ dDeath = Death
  \/ pc["D"] \in {"loop", "gc", "gcClose"}
  \/ \E g \in Procs : pc[g] \in {"lock", "assign", "cleanup", "waitdeath", "born"}

\* C38: no Birth channel ever holds more than one value, and a child-exit
\* goroutine that finds run.Death full is not blocked for good: the value
\* in the channel is about to be received.
C38_NoChannelMisuse == (\A ch \in Chans : Len(birthBuf[ch]) <= 1) /\ (\A c \in Children : (Alive /\ SendBlocked(c)) => DeathReceivable)

\* the maybeRun call of g decides to spawn: it goes on to execAsync
Spawns(g) == pc[g] \in {"assign", "cleanup", "waitdeath"} /\ pc'[g] = "born"

\* two moments lie more than one effective window apart
Apart(a, b) == a - b > Window \/ b - a > Window

\* C36: two maybeRun calls made within one effective window never both
\* start a child: a call that goes on to spawn was made more than a window
\* away from the call that started the previous child.
C36_OneStartPerWindow == [][\A g \in Procs : Spawns(g) => (startCall = 0 \/ Apart(calledAt[g], startCall))]_vars

====
